---- MODULE Spec2Model ----
(***************************************************************************)
(* A model of the Groth16 prover of rust-rapidsnark                        *)
(* (src/rust-rapidsnark/rapidsnark/src/groth16.cpp): makeProver and        *)
(* Prover::prove with its MSM tasks, the striped-lock coefficient scatter, *)
(* the three coset-FFT chains, the rejection sampling of r and s and the   *)
(* final proof assembly.                                                   *)
(*                                                                         *)
(* Widths are scaled down so that the state space is finite and small:     *)
(* the scalar field Fr has the prime modulus fr_modulus = 13 instead of    *)
(* the 254-bit BN254 modulus, an Fr element is Fr_N64 = 2 limbs of         *)
(* LimbBits = 3 bits instead of 4 limbs of 64 bits (so the Montgomery      *)
(* radix is 2^6 and the two masked high bits leave 4 bits, as 254 of 256), *)
(* and the lock bank has NUM_LOCKS = 2 stripes instead of 1024.            *)
(* G1 and G2 are cyclic of order fr_modulus; a point is modelled by its    *)
(* discrete logarithm, so adding points adds logarithms modulo fr_modulus. *)
(***************************************************************************)
EXTENDS Integers, Sequences, FiniteSets, TLC

\* ------------------------------------------------------------------------
\* Program constants (scaled) and model bounds
\* ------------------------------------------------------------------------

\* groth16.cpp:296 FrRawElement fr_modulus (scaled to a 4-bit prime)
fr_modulus == 13

\* width of one limb of an FrRawElement (uint64_t in the source)
LimbBits == 3

\* number of limbs of an Fr element (Fr_N64, 4 in the source)
Fr_N64 == 2

\* groth16.cpp:137 static constexpr int NUM_LOCKS (1024 in the source)
NUM_LOCKS == 2

\* width of the loop counters' type int (32 bits in the source); uint32_t has
\* the same width, uint64_t twice that
IntBits == 4

\* number of worker threads of the parallel_for pool
NumWorkers == 2

\* length of the coefficient stream of the proving key
NumCoefs == 3

\* number of distinct witness assignments the scatter is run on
NumWitnesses == 2

\* ------------------------------------------------------------------------
\* Fr: limbs, Montgomery arithmetic
\* ------------------------------------------------------------------------

Limb == 2 ^ LimbBits

Limbs == 0 .. (Limb - 1)

\* all contents an FrRawElement can hold
RawElements == [1 .. Fr_N64 -> Limbs]

\* the integer a little-endian limb vector denotes; v.v[0] is v[1] here
RECURSIVE RawValueFrom(_, _)
RawValueFrom(v, k) ==
    IF k > Len(v) THEN 0 ELSE v[k] + Limb * RawValueFrom(v, k + 1)

RawValue(v) == RawValueFrom(v, 1)

\* the limb vector of an integer below 2^(LimbBits*Fr_N64)
ToLimbs(x) == [k \in 1 .. Fr_N64 |-> (x \div (Limb ^ (k - 1))) % Limb]

\* the values of Fr elements, in whichever form they are stored
Fr == 0 .. (fr_modulus - 1)

\* Montgomery radix R = 2^(bits of an element), and R^-1 modulo the modulus
MontR == (Limb ^ Fr_N64) % fr_modulus

MontRInv == CHOOSE x \in Fr : (x * MontR) % fr_modulus = 1

\* E.fr.zero()
FrZero == 0

\* E.fr.add(r, x, y): modular addition
FrAdd(x, y) == (x + y) % fr_modulus

\* E.fr.sub(r, x, y): modular subtraction
FrSub(x, y) == (x + fr_modulus - y) % fr_modulus

\* E.fr.mul(r, x, y): Montgomery multiplication x*y*R^-1
FrMul(x, y) == (x * y * MontRInv) % fr_modulus

\* E.fr.toMontgomery(r, x): x*R
toMontgomery(x) == (x * MontR) % fr_modulus

\* E.fr.fromMontgomery(r, x): x*R^-1
fromMontgomery(x) == (x * MontRInv) % fr_modulus

\* ------------------------------------------------------------------------
\* G1, G2: points as discrete logarithms modulo the group order
\* ------------------------------------------------------------------------

G1 == 0 .. (fr_modulus - 1)

\* E.g1.add / E.g2.add
GAdd(p, p2) == (p + p2) % fr_modulus

\* E.g1.sub
GSub(p, p2) == (p + fr_modulus - (p2 % fr_modulus)) % fr_modulus

\* E.g1.mulByScalar(r, base, scalar, size): the scalar bytes are a raw integer
GMulByScalar(base, scalar) == (base * scalar) % fr_modulus

\* E.g1.multiMulByScalar(r, bases, scalars, sW, n): sum of scalars[i]*bases[i]
\* over the first n entries; both are 0-based arrays, sequences here
RECURSIVE MultiMulFrom(_, _, _, _)
MultiMulFrom(bases, scalars, n, k) ==
    IF k > n THEN 0
    ELSE GAdd(GMulByScalar(bases[k], scalars[k]),
              MultiMulFrom(bases, scalars, n, k + 1))

multiMulByScalar(bases, scalars, n) == MultiMulFrom(bases, scalars, n, 1)

\* ------------------------------------------------------------------------
\* The FFT engine fft_ (its code is not part of groth16.cpp): the discrete
\* Fourier transform over Fr on Montgomery-form values
\* ------------------------------------------------------------------------

\* fft_.log2(n)
RECURSIVE log2(_)
log2(n) == IF n <= 1 THEN 0 ELSE 1 + log2(n \div 2)

\* n is a power of two
IsPowerOfTwo(n) == n >= 1 /\ 2 ^ log2(n) = n

\* x^e in natural form
RECURSIVE FrPow(_, _)
FrPow(x, e) == IF e = 0 THEN 1 ELSE (x * FrPow(x, e - 1)) % fr_modulus

\* a generator of the multiplicative group of Fr
FrGenerator ==
    CHOOSE g \in 2 .. (fr_modulus - 1) :
        \A e \in 1 .. (fr_modulus - 2) : FrPow(g, e) # 1

\* a primitive 2^k-th root of unity, natural form
Omega(k) == FrPow(FrGenerator, (fr_modulus - 1) \div (2 ^ k))

\* fft_.root(k, i): the i-th power of the primitive 2^k-th root, Montgomery form
root(k, i) == toMontgomery(FrPow(Omega(k), i))

\* field sum of f[0..n-1]
RECURSIVE FrSum(_, _)
FrSum(f, n) == IF n = 0 THEN FrZero ELSE FrAdd(f[n - 1], FrSum(f, n - 1))

\* fft_.fft(v, n): evaluations at the n-th roots of unity
fft(v, n) ==
    [i \in 0 .. (n - 1) |->
        FrSum([j \in 0 .. (n - 1) |-> FrMul(v[j], root(log2(n), (i * j) % n))], n)]

\* fft_.ifft(v, n): the inverse transform, scaled by 1/n
ifft(v, n) ==
    LET nInv == CHOOSE x \in Fr : (x * n) % fr_modulus = 1
    IN [i \in 0 .. (n - 1) |->
           FrMul(toMontgomery(nInv),
                 FrSum([j \in 0 .. (n - 1) |->
                           FrMul(v[j], root(log2(n), (n - ((i * j) % n)) % n))], n))]

\* ------------------------------------------------------------------------
\* Proving keys and witnesses handed to the prover
\* ------------------------------------------------------------------------

\* a table of n points
PointTable(n, seed) == [i \in 1 .. n |-> ((i * seed) % (fr_modulus - 1)) + 1]

\* the k-th record (0-based) of the coefficient stream of the sample circuit:
\* records 0 and 1 share the bucket a[0], record 2 goes to b[0]
CoefAt(k, nVars, domainSize) ==
    [m |-> (k \div 2) % 2, c |-> (k \div 3) % domainSize, s |-> k % nVars,
     coef |-> ((k * 5) % (fr_modulus - 1)) + 1]

\* the permutations of 1..n
Permutations1(n) ==
    {p \in [1 .. n -> 1 .. n] : \A i, j \in 1 .. n : p[i] = p[j] => i = j}

\* the unpermuted stream
BaseStream == [k \in 1 .. NumCoefs |-> CoefAt(k - 1, 3, 2)]

\* the arguments of makeProver for the sample circuit with its stream in the
\* order p; coefs is the caller's buffer: a count header, then the records
SampleKey(p) ==
    [nVars |-> 3, nPublic |-> 1, domainSize |-> 2, nCoeffs |-> NumCoefs,
     vk_alpha1 |-> 2, vk_beta_1 |-> 3, vk_beta_2 |-> 5,
     vk_delta_1 |-> 7, vk_delta_2 |-> 11,
     coefs |-> <<NumCoefs>> \o [k \in 1 .. NumCoefs |-> BaseStream[p[k]]],
     pointsA |-> PointTable(3, 1), pointsB1 |-> PointTable(3, 5),
     pointsB2 |-> PointTable(3, 7), pointsC |-> PointTable(1, 9),
     pointsH |-> PointTable(2, 3)]

IdentityPerm == [k \in 1 .. NumCoefs |-> k]

\* keys that break a structural invariant of section 3 of the specification
BadKeys ==
    LET k == SampleKey(IdentityPerm)
        bad(f, v) ==
            [k.coefs EXCEPT ![NumCoefs + 1] = [k.coefs[NumCoefs + 1] EXCEPT ![f] = v]]
    IN {[k EXCEPT !.domainSize = 3],
        [k EXCEPT !.coefs = bad("c", k.domainSize)],
        [k EXCEPT !.coefs = bad("s", k.nVars)],
        [k EXCEPT !.coefs = bad("m", 2)],
        [k EXCEPT !.nPublic = k.nVars]}

\* the j-th witness of n signals; wtns[0] is the constant one
WitnessOf(j, n) ==
    [i \in 1 .. n |->
        IF i = 1 THEN toMontgomery(1) ELSE (i * (j + 2) + j) % fr_modulus]

\* ------------------------------------------------------------------------
\* State
\* ------------------------------------------------------------------------

VARIABLES
    zkey,       \* the arguments the caller hands to makeProver
    prover,     \* <<>> or <<the fields of the constructed Prover>>
    wtns,       \* the caller's witness buffer, wtns[0] of the source is wtns[1]
    heap,       \* what the memory right behind the witness buffer holds
    oob,        \* whether an element behind the witness buffer was read
    pc,         \* where the thread that called makeProver and prove stands
    err,        \* the error the call ended in, "none" while there is none
    proof,      \* <<>> or <<the returned Proof>>
    msm,        \* the four futures of the witness MSMs
    pi,         \* the locals pi_a, pib1, pi_b, pi_c the MSM tasks write
    pih,        \* the local pih
    a, b, c,    \* the evaluation vectors, <<>> while not allocated
    todo,       \* indices of the running parallel_for no worker has taken
    wk,         \* the pool's workers: sub-range [lo, hi) and the body's locals
    spinlocks,  \* the lock bank: 0 when free, else the worker that holds it
    chain,      \* the three futures of the coset-FFT chains
    shiftTodo,  \* per chain, the indices its coset shift still has to visit
    r, s,       \* the blinding scalars' limbs, <<>> while never written
    short,      \* per scalar, whether an RNG call for it delivered too few bytes
    guards,     \* the vectors whose scope guard delete_a/b/c is armed
    heapLog,    \* per vector, how often new[] gave it and delete[] released it
    visits,     \* per index of the running parallel_for, the bodies run on it
    dangling    \* whether a task touched a released vector or a dead local

vars == <<zkey, prover, wtns, heap, oob, pc, err, proof, msm, pi, pih, a, b, c,
          todo, wk, spinlocks, chain, shiftTodo, r, s, short, guards, heapLog,
          visits, dangling>>

Workers == 1 .. NumWorkers

MsmTasks == {"pi_a", "pib1", "pi_b", "pi_c"}

Vectors == {"a", "b", "c"}

\* content of a local or of an array element that was never written
Uninit == 0 - 1

\* the Prover the running prove call belongs to
P == prover[1]

\* a worker that holds no sub-range; job is the loop its sub-range belongs to
IdleWorker ==
    [lo |-> 0, hi |-> 0, st |-> "idle", job |-> "none", aux |-> 0, tmp |-> 0]

\* no new[] and no delete[] has happened
NoHeapLog == [v \in Vectors |-> [new |-> 0, del |-> 0]]

\* a parallel_for over [0, n) none of whose bodies has run
NoVisits(n) == [i \in 0 .. (n - 1) |-> 0]

\* the state before makeProver, for a key and a witness
InitWith(key, w, h) ==
    /\ zkey = key
    /\ prover = <<>>
    /\ wtns = w
    /\ heap = h
    /\ oob = FALSE
    /\ pc = "new"
    /\ err = "none"
    /\ proof = <<>>
    /\ msm = [t \in MsmTasks |-> "none"]
    /\ pi = [t \in MsmTasks |-> Uninit]
    /\ pih = Uninit
    /\ a = <<>>
    /\ b = <<>>
    /\ c = <<>>
    /\ todo = {}
    /\ wk = [w2 \in Workers |-> IdleWorker]
    /\ spinlocks = [l \in 0 .. (NUM_LOCKS - 1) |-> 0]
    /\ chain = [v \in Vectors |-> "none"]
    /\ shiftTodo = [v \in Vectors |-> {}]
    /\ r = <<>>
    /\ s = <<>>
    /\ short = [x \in {"r", "s"} |-> FALSE]
    /\ guards = {}
    /\ heapLog = NoHeapLog
    /\ visits = NoVisits(0)
    /\ dangling = FALSE

\* the main specification: the sample circuit and the malformed keys, with a
\* witness of nVars signals
Init ==
    \E key \in {SampleKey(IdentityPerm)} \cup BadKeys :
        InitWith(key, WitnessOf(0, key.nVars), 0)

\* ------------------------------------------------------------------------
\* makeProver and the Prover constructor
\* ------------------------------------------------------------------------

\* the structural invariants of a proving key (specification, sections 3, 7);
\* the Prover constructor lives in groth16.hpp
ValidKey(k) ==
    /\ k.nVars > k.nPublic
    /\ IsPowerOfTwo(k.domainSize)
    /\ \A i \in 1 .. k.nCoefs :
          /\ k.coefs[i].m \in {0, 1}
          /\ k.coefs[i].c < k.domainSize
          /\ k.coefs[i].s < k.nVars

\* a call that passes domainSize where the count of the records belongs
ProverArgsCountSlip(k) ==
    [nVars |-> k.nVars, nPublic |-> k.nPublic, domainSize |-> k.domainSize,
     nCoefs |-> k.domainSize,
     vk_alpha1 |-> k.vk_alpha1, vk_beta1 |-> k.vk_beta_1,
     vk_beta2 |-> k.vk_beta_2, vk_delta1 |-> k.vk_delta_1,
     vk_delta2 |-> k.vk_delta_2,
     coefs |-> Tail(k.coefs),
     pointsA |-> k.pointsA, pointsB1 |-> k.pointsB1, pointsB2 |-> k.pointsB2,
     pointsC |-> k.pointsC, pointsH |-> k.pointsH]

\* the arguments makeProver passes to the constructor: the fields in order,
\* the coefficient pointer advanced past the 4-byte count header
ProverArgs(k) ==
    [nVars |-> k.nVars, nPublic |-> k.nPublic, domainSize |-> k.domainSize,
     nCoefs |-> k.nCoeffs,
     vk_alpha1 |-> k.vk_alpha1, vk_beta1 |-> k.vk_beta_1,
     vk_beta2 |-> k.vk_beta_2, vk_delta1 |-> k.vk_delta_1,
     vk_delta2 |-> k.vk_delta_2,
     coefs |-> Tail(k.coefs),
     pointsA |-> k.pointsA, pointsB1 |-> k.pointsB1, pointsB2 |-> k.pointsB2,
     pointsC |-> k.pointsC, pointsH |-> k.pointsH]

\* makeProver: builds the Prover, or fails with InvalidKey
makeProver ==
    /\ pc = "new"
    /\ IF ValidKey(ProverArgs(zkey))
       THEN /\ prover' = <<ProverArgs(zkey)>>
            /\ pc' = "idle"
            /\ err' = err
       ELSE /\ prover' = prover
            /\ pc' = "failed"
            /\ err' = "InvalidKey"
    /\ UNCHANGED <<zkey, wtns, heap, oob, proof, msm, pi, pih, a, b, c, todo, wk,
                   spinlocks, chain, shiftTodo, r, s, short,
                   guards, heapLog, visits, dangling>>

\* ------------------------------------------------------------------------
\* prove, phase 1: the four witness MSM tasks
\* ------------------------------------------------------------------------

\* the launch policies std::async may pick when none is given
LaunchPolicies == {"async", "deferred"}

\* wtns[i] as the code reads it: behind the buffer it reads the heap
WtnsAt(i) == IF i < Len(wtns) THEN wtns[i + 1] ELSE heap

\* the n scalars starting at wtns + from
WtnsView(from, n) == [k \in 1 .. n |-> WtnsAt(from + k - 1)]

\* whether reading n scalars from wtns + from leaves the buffer
ReadsBehind(from, n) == n > 0 /\ from + n > Len(wtns)

\* a value as an unsigned integer of the given width: arithmetic on unsigned
\* types, and the conversion of an int to one, is modulo 2^bits
ToUnsigned(i, bits) == (i + 2 ^ bits) % (2 ^ bits)

\* an MSM that starts at the first witness element
MsmFromStart(t) == 0

\* first scalar and count of each witness MSM; the count of pi_c is computed
\* in std::uint32_t (line 111)
MsmFrom(t) == IF t = "pi_c" THEN P.nPublic + 1 ELSE 0

MsmCount(t) ==
    IF t = "pi_c" THEN ToUnsigned(P.nVars - P.nPublic - 1, IntBits) ELSE P.nVars

MsmBases(t) ==
    CASE t = "pi_a" -> P.pointsA
      [] t = "pib1" -> P.pointsB1
      [] t = "pi_b" -> P.pointsB2
      [] t = "pi_c" -> P.pointsC

\* prove, lines 85-112: the four std::async calls
LaunchMSM ==
    /\ pc = "idle"
    /\ msm' \in [MsmTasks -> LaunchPolicies]
    /\ pc' = "alloc"
    /\ UNCHANGED <<zkey, prover, wtns, heap, oob, err, proof, pi, pih, a, b, c,
                   todo, wk, spinlocks, chain, shiftTodo, r, s, short,
                   guards, heapLog, visits, dangling>>

\* the future t is waited for by the calling thread right now
MsmAwaited(t) == pc = "get_" \o t

\* whether the task behind a future may take a step: an async task runs on
\* its own thread, a deferred one runs inside get()
Runnable(status, awaited) ==
    \/ status = "async"
    \/ status = "deferred" /\ awaited

\* prove has returned to its caller: its locals are gone
LocalsDead == pc \in {"done", "failed"}

\* the body of an MSM task: E.g1.multiMulByScalar into its local
MsmRun(t) ==
    /\ Runnable(msm[t], MsmAwaited(t))
    /\ IF LocalsDead
       THEN /\ dangling' = TRUE
            /\ pi' = pi
       ELSE /\ dangling' = dangling
            /\ pi' = [pi EXCEPT ![t] = multiMulByScalar(MsmBases(t),
                                 WtnsView(MsmFrom(t), MsmCount(t)), MsmCount(t))]
    /\ oob' = (oob \/ ReadsBehind(MsmFrom(t), MsmCount(t)))
    /\ msm' = [msm EXCEPT ![t] = "done"]
    /\ UNCHANGED <<zkey, prover, wtns, heap, pc, err, proof, pih, a, b, c, todo,
                   wk, spinlocks, chain, shiftTodo, r, s, short,
                   guards, heapLog, visits>>

\* ------------------------------------------------------------------------
\* prove, phase 2: allocation, tbb::parallel_for, zero-init, scatter
\* ------------------------------------------------------------------------

\* the loops prove runs with tbb::parallel_for on the calling thread
LoopPhases == {"zero", "scatter", "calc_c", "abc"}

\* a fresh array of domainSize elements
NewArray == [i \in 0 .. (P.domainSize - 1) |-> Uninit]

\* lines 116, 119, 122: the order in which a, b, c are allocated
VectorOrder == <<"a", "b", "c">>

\* the vectors new[] has given before the n-th allocation
AllocatedBefore(n) == {VectorOrder[k] : k \in 1 .. (n - 1)}

\* guards that are all declared behind the last allocation
ArmedAfterLast(n) == IF n > Len(VectorOrder) THEN AllocatedBefore(n) ELSE {}

\* lines 117, 120, 123: MAKE_SCOPE_EXIT follows each new[] at once, so the
\* guards armed before the n-th allocation are those of the vectors before it
ArmedBefore(n) == AllocatedBefore(n)

\* the log after new[] gave the vectors vs
LogNew(vs) ==
    [v \in Vectors |->
        [heapLog[v] EXCEPT !.new = @ + (IF v \in vs THEN 1 ELSE 0)]]

\* the armed scope guards run: delete[] on each guarded vector
ReleaseGuarded ==
    /\ a' = IF "a" \in guards THEN <<>> ELSE a
    /\ b' = IF "b" \in guards THEN <<>> ELSE b
    /\ c' = IF "c" \in guards THEN <<>> ELSE c
    /\ heapLog' = [v \in Vectors |->
                      [heapLog[v] EXCEPT !.del = @ + (IF v \in guards THEN 1 ELSE 0)]]
    /\ guards' = {}

\* prove, lines 116-125: new a, b, c; the zero-init parallel_for starts
Allocate ==
    /\ pc = "alloc"
    /\ a' = NewArray
    /\ b' = NewArray
    /\ c' = NewArray
    /\ guards' = ArmedBefore(Len(VectorOrder) + 1)
    /\ heapLog' = LogNew(AllocatedBefore(Len(VectorOrder) + 1))
    /\ todo' = 0 .. (P.domainSize - 1)
    /\ visits' = NoVisits(P.domainSize)
    /\ pc' = "zero"
    /\ UNCHANGED <<zkey, prover, wtns, heap, oob, err, proof, msm, pi, pih, wk,
                   spinlocks, chain, shiftTodo, r, s, short, dangling>>

\* lines 116-122: the n-th new[] throws std::bad_alloc; the vectors before it
\* were allocated and their guards armed
AllocFails ==
    /\ pc = "alloc"
    /\ \E n \in 1 .. Len(VectorOrder) :
          /\ a' = IF "a" \in AllocatedBefore(n) THEN NewArray ELSE a
          /\ b' = IF "b" \in AllocatedBefore(n) THEN NewArray ELSE b
          /\ c' = IF "c" \in AllocatedBefore(n) THEN NewArray ELSE c
          /\ guards' = ArmedBefore(n)
          /\ heapLog' = LogNew(AllocatedBefore(n))
    /\ err' = "BadAlloc"
    /\ pc' = "unwind"
    /\ UNCHANGED <<zkey, prover, wtns, heap, oob, proof, msm, pi, pih, todo, wk,
                   spinlocks, chain, shiftTodo, r, s, short, visits, dangling>>

\* the largest int
INT_MAX == 2 ^ (IntBits - 1) - 1

\* width of the index type of a loop's blocked_range: std::uint64_t for the
\* scatter (line 142), std::uint32_t for the loops over the domain
RangeBits(job) == IF job = "scatter" THEN 2 * IntBits ELSE IntBits

\* int i = range.begin(): the conversion to int keeps the low bits
ToInt(x) ==
    LET m == x % (2 ^ IntBits)
    IN IF m > INT_MAX THEN m - 2 ^ IntBits ELSE m

\* i < range.end(): the int is compared as a value of the range's type
LoopTest(i, end, job) == ToUnsigned(i, RangeBits(job)) < end

\* ++i: overflow of a signed int is undefined; the counter then wraps to the
\* smallest int, or goes on in a wider register
Incremented(i) == IF i = INT_MAX THEN {0 - INT_MAX - 1, INT_MAX + 1} ELSE {i + 1}

\* tbb::blocked_range: an idle worker takes a contiguous run [lo, hi) of the
\* indices nobody has taken yet; the lambda's loop starts with
\* int i = range.begin() and i < range.end()
TakeRange(w) ==
    /\ pc \in LoopPhases
    /\ wk[w].st = "idle"
    /\ \E lo \in todo :
          \E hi \in {h \in (lo + 1) .. (lo + Cardinality(todo)) :
                        \A i \in lo .. (h - 1) : i \in todo} :
              /\ wk' = [wk EXCEPT ![w] =
                           IF LoopTest(ToInt(lo), hi, pc)
                           THEN [IdleWorker EXCEPT !.lo = ToInt(lo), !.hi = hi,
                                                   !.st = "run", !.job = pc]
                           ELSE IdleWorker]
              /\ todo' = todo \ (lo .. (hi - 1))
    /\ UNCHANGED <<zkey, prover, wtns, heap, oob, pc, err, proof, msm, pi, pih,
                   a, b, c, spinlocks, chain, shiftTodo, r, s, short,
                   guards, heapLog, visits, dangling>>

\* ++i and i < range.end() at the end of a loop body: what the worker may be
\* afterwards; it is idle again when the test fails
NextIndex(rec) ==
    {IF LoopTest(n, rec.hi, rec.job)
     THEN [rec EXCEPT !.lo = n, !.st = "run", !.aux = 0, !.tmp = 0]
     ELSE IdleWorker : n \in Incremented(rec.lo)}

\* the log of the running parallel_for after a body has run on index i
Visited(i) ==
    IF i \in DOMAIN visits THEN [visits EXCEPT ![i] = @ + 1] ELSE visits

\* a parallel_for that returns as soon as every index was handed out
AllIndicesTaken == todo = {}

\* tbb::parallel_for returns: every index was taken and every worker is back
ParallelForDone == todo = {} /\ \A w \in Workers : wk[w].st = "idle"

\* lines 128-132: a[i] = 0, b[i] = 0
ZeroBody(w) ==
    /\ wk[w].st = "run"
    /\ wk[w].job = "zero"
    /\ a' = [a EXCEPT ![wk[w].lo] = FrZero]
    /\ b' = [b EXCEPT ![wk[w].lo] = FrZero]
    /\ \E n \in NextIndex(wk[w]) : wk' = [wk EXCEPT ![w] = n]
    /\ visits' = Visited(wk[w].lo)
    /\ UNCHANGED <<zkey, prover, wtns, heap, oob, pc, err, proof, msm, pi, pih,
                   c, todo, spinlocks, chain, shiftTodo, r, s, short,
                   guards, heapLog, dangling>>

\* lines 141-142: the scatter parallel_for over [0, nCoefs) starts
StartScatter ==
    /\ pc = "zero"
    /\ ParallelForDone
    /\ todo' = 0 .. (P.nCoefs - 1)
    /\ visits' = NoVisits(P.nCoefs)
    /\ pc' = "scatter"
    /\ UNCHANGED <<zkey, prover, wtns, heap, oob, err, proof, msm, pi, pih, a, b,
                   c, wk, spinlocks, chain, shiftTodo, r, s, short,
                   guards, heapLog, dangling>>

\* coefs[i] of the record a worker stands at
CoefOf(rec) == P.coefs[rec.lo + 1]

\* line 147: ab = (coefs[i].m == 0) ? a : b
Target(coef) == IF coef.m = 0 THEN "a" ELSE "b"

\* line 152: the stripe of a record
Stripe(coef) == coef.c % NUM_LOCKS

\* a body that stores the product in the witness element it read
ScatterMulInPlace(w) ==
    /\ wk[w].st = "run"
    /\ wk[w].job = "scatter"
    /\ wk' = [wk EXCEPT ![w].aux = FrMul(WtnsAt(CoefOf(wk[w]).s), CoefOf(wk[w]).coef),
                        ![w].st = "lock"]
    /\ wtns' = [wtns EXCEPT ![CoefOf(wk[w]).s + 1] =
                    FrMul(WtnsAt(CoefOf(wk[w]).s), CoefOf(wk[w]).coef)]
    /\ oob' = (oob \/ CoefOf(wk[w]).s >= Len(wtns))
    /\ UNCHANGED <<zkey, prover, heap, pc, err, proof, msm, pi, pih, a, b,
                   c, todo, spinlocks, chain, shiftTodo, r, s, short,
                   guards, heapLog, visits, dangling>>

\* line 150: aux = wtns[coefs[i].s] * coefs[i].coef
ScatterMul(w) ==
    /\ wk[w].st = "run"
    /\ wk[w].job = "scatter"
    /\ wk' = [wk EXCEPT ![w].aux = FrMul(WtnsAt(CoefOf(wk[w]).s), CoefOf(wk[w]).coef),
                        ![w].st = "lock"]
    /\ oob' = (oob \/ CoefOf(wk[w]).s >= Len(wtns))
    /\ UNCHANGED <<zkey, prover, wtns, heap, pc, err, proof, msm, pi, pih, a, b,
                   c, todo, spinlocks, chain, shiftTodo, r, s, short,
                   guards, heapLog, visits, dangling>>

\* a lock that never excludes anybody
CanLockAlways(l) == TRUE

\* aptos::spinlock::lock succeeds only on a free lock
CanLock(l) == spinlocks[l] = 0

\* an assignment where the accumulation should be
AccumulateOverwrite(old, aux) == aux

\* line 153: E.fr.add(ab[c], ab[c], aux), the new content of the bucket
Accumulate(old, aux) == FrAdd(old, aux)

\* lines 152-153: std::unique_lock takes the stripe's lock, E.fr.add reads
\* ab[coefs[i].c]
ScatterLock(w) ==
    /\ wk[w].st = "lock"
    /\ CanLock(Stripe(CoefOf(wk[w])))
    /\ spinlocks' = [spinlocks EXCEPT ![Stripe(CoefOf(wk[w]))] = w]
    /\ wk' = [wk EXCEPT ![w].tmp = IF Target(CoefOf(wk[w])) = "a"
                                   THEN a[CoefOf(wk[w]).c]
                                   ELSE b[CoefOf(wk[w]).c],
                        ![w].st = "add"]
    /\ UNCHANGED <<zkey, prover, wtns, heap, oob, pc, err, proof, msm, pi, pih,
                   a, b, c, todo, chain, shiftTodo, r, s, short,
                   guards, heapLog, visits, dangling>>

\* an addition after which the worker keeps the stripe's lock
ScatterAddKeepsLock(w) ==
    /\ wk[w].st = "add"
    /\ IF Target(CoefOf(wk[w])) = "a"
       THEN /\ a' = [a EXCEPT ![CoefOf(wk[w]).c] = Accumulate(wk[w].tmp, wk[w].aux)]
            /\ b' = b
       ELSE /\ b' = [b EXCEPT ![CoefOf(wk[w]).c] = Accumulate(wk[w].tmp, wk[w].aux)]
            /\ a' = a
    /\ \E n \in NextIndex(wk[w]) : wk' = [wk EXCEPT ![w] = n]
    /\ visits' = Visited(wk[w].lo)
    /\ UNCHANGED <<zkey, prover, wtns, heap, oob, pc, err, proof, msm, pi, pih,
                   c, todo, spinlocks, chain, shiftTodo, r, s, short,
                   guards, heapLog, dangling>>

\* lines 153-154: E.fr.add writes ab[coefs[i].c], the lock is released at the
\* end of the block
ScatterAdd(w) ==
    /\ wk[w].st = "add"
    /\ IF Target(CoefOf(wk[w])) = "a"
       THEN /\ a' = [a EXCEPT ![CoefOf(wk[w]).c] = Accumulate(wk[w].tmp, wk[w].aux)]
            /\ b' = b
       ELSE /\ b' = [b EXCEPT ![CoefOf(wk[w]).c] = Accumulate(wk[w].tmp, wk[w].aux)]
            /\ a' = a
    /\ spinlocks' = [spinlocks EXCEPT ![Stripe(CoefOf(wk[w]))] = 0]
    /\ \E n \in NextIndex(wk[w]) : wk' = [wk EXCEPT ![w] = n]
    /\ visits' = Visited(wk[w].lo)
    /\ UNCHANGED <<zkey, prover, wtns, heap, oob, pc, err, proof, msm, pi, pih,
                   c, todo, chain, shiftTodo, r, s, short,
                   guards, heapLog, dangling>>

\* ------------------------------------------------------------------------
\* prove, phase 3: c = a*b and the three coset-FFT chains
\* ------------------------------------------------------------------------

\* line 160: the parallel_for computing c starts
StartCalcC ==
    /\ pc = "scatter"
    /\ ParallelForDone
    /\ todo' = 0 .. (P.domainSize - 1)
    /\ visits' = NoVisits(P.domainSize)
    /\ pc' = "calc_c"
    /\ UNCHANGED <<zkey, prover, wtns, heap, oob, err, proof, msm, pi, pih, a, b,
                   c, wk, spinlocks, chain, shiftTodo, r, s, short,
                   guards, heapLog, dangling>>

\* line 165: c[i] = a[i] * b[i]
CalcCBody(w) ==
    /\ wk[w].st = "run"
    /\ wk[w].job = "calc_c"
    /\ c' = [c EXCEPT ![wk[w].lo] = FrMul(a[wk[w].lo], b[wk[w].lo])]
    /\ \E n \in NextIndex(wk[w]) : wk' = [wk EXCEPT ![w] = n]
    /\ visits' = Visited(wk[w].lo)
    /\ UNCHANGED <<zkey, prover, wtns, heap, oob, pc, err, proof, msm, pi, pih,
                   a, b, todo, spinlocks, chain, shiftTodo, r, s, short,
                   guards, heapLog, dangling>>

\* line 170: domainPower = fft_.log2(domainSize)
domainPower == log2(P.domainSize)

\* lines 172-231: the n-th std::async of the chains throws; the chains before
\* it were launched
AsyncFails ==
    /\ pc = "calc_c"
    /\ ParallelForDone
    /\ \E n \in 1 .. Len(VectorOrder) :
          \E policy \in [Vectors -> LaunchPolicies] :
              chain' = [v \in Vectors |->
                           IF v \in AllocatedBefore(n) THEN policy[v] ELSE "none"]
    /\ err' = "BadAlloc"
    /\ pc' = "unwind"
    /\ UNCHANGED <<zkey, prover, wtns, heap, oob, proof, msm, pi, pih, a, b, c,
                   todo, wk, spinlocks, shiftTodo, r, s, short,
                   guards, heapLog, visits, dangling>>

\* lines 172-258: the three std::async calls of the chains
LaunchFFT ==
    /\ pc = "calc_c"
    /\ ParallelForDone
    /\ chain' \in [Vectors -> LaunchPolicies]
    /\ pc' = "get_a"
    /\ UNCHANGED <<zkey, prover, wtns, heap, oob, err, proof, msm, pi, pih, a, b,
                   c, todo, wk, spinlocks, shiftTodo, r, s, short,
                   guards, heapLog, visits, dangling>>

\* the vector a chain works on
VectorOf(v) == CASE v = "a" -> a [] v = "b" -> b [] v = "c" -> c

\* a chain stores its vector
StoreVector(v, new) ==
    /\ a' = IF v = "a" THEN new ELSE a
    /\ b' = IF v = "b" THEN new ELSE b
    /\ c' = IF v = "c" THEN new ELSE c

\* delete[] has released the vector a chain captured by reference
Released(v) == VectorOf(v) = <<>>

\* a step of a chain on its vector: on a released vector the access dangles
ChainStep(v, new) ==
    IF Released(v)
    THEN /\ dangling' = TRUE
         /\ UNCHANGED <<a, b, c>>
    ELSE /\ dangling' = dangling
         /\ StoreVector(v, new)

\* lines 176, 205, 235: fft_.ifft on the whole vector; the shift loop starts
ChainIfft(v) ==
    /\ Runnable(chain[v], pc = "get_" \o v)
    /\ ChainStep(v, ifft(VectorOf(v), P.domainSize))
    /\ chain' = [chain EXCEPT ![v] = "shift"]
    /\ shiftTodo' = [shiftTodo EXCEPT ![v] = 0 .. (P.domainSize - 1)]
    /\ UNCHANGED <<zkey, prover, wtns, heap, oob, pc, err, proof, msm, pi, pih,
                   todo, wk, spinlocks, r, s, short,
                   guards, heapLog, visits>>

\* lines 182-190, 212-220, 241-249: one index of the shift loop,
\* v[i] = v[i] * root(domainPower + 1, i)
ChainShift(v) ==
    /\ chain[v] = "shift"
    /\ \E i \in shiftTodo[v] :
          /\ ChainStep(v, [VectorOf(v) EXCEPT
                              ![i] = FrMul(VectorOf(v)[i],
                                           root(domainPower + 1, i))])
          /\ shiftTodo' = [shiftTodo EXCEPT ![v] = shiftTodo[v] \ {i}]
    /\ UNCHANGED <<zkey, prover, wtns, heap, oob, pc, err, proof, msm, pi, pih,
                   todo, wk, spinlocks, chain, r, s, short,
                   guards, heapLog, visits>>

\* a forward FFT that does not wait for the shift loop to return
ChainFftEarly(v) ==
    /\ chain[v] = "shift"
    /\ ChainStep(v, fft(VectorOf(v), P.domainSize))
    /\ chain' = [chain EXCEPT ![v] = "done"]
    /\ UNCHANGED <<zkey, prover, wtns, heap, oob, pc, err, proof, msm, pi, pih,
                   todo, wk, spinlocks, shiftTodo, r, s, short, guards, heapLog,
                   visits>>

\* lines 195, 225, 254: fft_.fft on the whole vector; the task ends
ChainFft(v) ==
    /\ chain[v] = "shift"
    /\ shiftTodo[v] = {}
    /\ ChainStep(v, fft(VectorOf(v), P.domainSize))
    /\ chain' = [chain EXCEPT ![v] = "done"]
    /\ UNCHANGED <<zkey, prover, wtns, heap, oob, pc, err, proof, msm, pi, pih,
                   todo, wk, spinlocks, shiftTodo, r, s, short,
                   guards, heapLog, visits>>

\* a get() that returns without waiting
FutureReadyAtOnce(status) == TRUE

\* future.get() returns once the task has finished
FutureReady(status) == status = "done"

\* lines 260-262: iFFT_A_future.get(), iFFT_B_future.get(), iFFT_C_future.get();
\* after the last the ABC parallel_for starts (line 266)
GetFFT(v) ==
    /\ pc = "get_" \o v
    /\ FutureReady(chain[v])
    /\ pc' = CASE v = "a" -> "get_b" [] v = "b" -> "get_c" [] v = "c" -> "abc"
    /\ todo' = IF v = "c" THEN 0 .. (P.domainSize - 1) ELSE todo
    /\ visits' = IF v = "c" THEN NoVisits(P.domainSize) ELSE visits
    /\ UNCHANGED <<zkey, prover, wtns, heap, oob, err, proof, msm, pi, pih, a, b,
                   c, wk, spinlocks, chain, shiftTodo, r, s, short,
                   guards, heapLog, dangling>>

\* ------------------------------------------------------------------------
\* prove, phase 4: the quotient evaluations and the H MSM
\* ------------------------------------------------------------------------

\* a reduction that leaves a[i]*b[i] - c[i] in Montgomery form
AbcBodyMontgomery(w) ==
    /\ wk[w].st = "run"
    /\ wk[w].job = "abc"
    /\ a' = [a EXCEPT ![wk[w].lo] =
                FrSub(FrMul(a[wk[w].lo], b[wk[w].lo]), c[wk[w].lo])]
    /\ \E n \in NextIndex(wk[w]) : wk' = [wk EXCEPT ![w] = n]
    /\ visits' = Visited(wk[w].lo)
    /\ UNCHANGED <<zkey, prover, wtns, heap, oob, pc, err, proof, msm, pi, pih,
                   b, c, todo, spinlocks, chain, shiftTodo, r, s, short,
                   guards, heapLog, dangling>>

\* lines 271-273: a[i] = a[i]*b[i] - c[i], then fromMontgomery in place
AbcBody(w) ==
    /\ wk[w].st = "run"
    /\ wk[w].job = "abc"
    /\ a' = [a EXCEPT ![wk[w].lo] =
                fromMontgomery(FrSub(FrMul(a[wk[w].lo], b[wk[w].lo]), c[wk[w].lo]))]
    /\ \E n \in NextIndex(wk[w]) : wk' = [wk EXCEPT ![w] = n]
    /\ visits' = Visited(wk[w].lo)
    /\ UNCHANGED <<zkey, prover, wtns, heap, oob, pc, err, proof, msm, pi, pih,
                   b, c, todo, spinlocks, chain, shiftTodo, r, s, short,
                   guards, heapLog, dangling>>

\* a 0-based array as the sequence of its first n elements
AsSeq(f, n) == [k \in 1 .. n |-> f[k - 1]]

\* line 283: pih = MSM of pointsH against a, on the calling thread
MultiexpH ==
    /\ pc = "abc"
    /\ ParallelForDone
    /\ pih' = multiMulByScalar(P.pointsH, AsSeq(a, P.domainSize), P.domainSize)
    /\ pc' = "sample_r"
    /\ UNCHANGED <<zkey, prover, wtns, heap, oob, err, proof, msm, pi, a, b, c,
                   todo, wk, spinlocks, chain, shiftTodo, r, s, short,
                   guards, heapLog, visits, dangling>>

\* ------------------------------------------------------------------------
\* prove, phase 5: rejection sampling of r and s
\* ------------------------------------------------------------------------

\* lines 296-297: the limbs of the modulus, least significant first
fr_modulus_limbs == ToLimbs(fr_modulus)

\* lines 303, 312: v[3] &= 0x3FFF...: the two high bits of the top limb cleared
MaskTop(v) == [v EXCEPT ![Fr_N64] = v[Fr_N64] % (2 ^ (LimbBits - 2))]

\* mpn_cmp(x, y, n): the sign of x - y, compared from the top limb down
RECURSIVE mpn_cmp(_, _, _)
mpn_cmp(x, y, n) ==
    IF n = 0 THEN 0
    ELSE IF x[n] > y[n] THEN 1
    ELSE IF x[n] < y[n] THEN 0 - 1
    ELSE mpn_cmp(x, y, n - 1)

\* a loop that goes round again only while cmp > 0
RejectedAbove(v) == mpn_cmp(v, ToLimbs(fr_modulus), Fr_N64) > 0

\* lines 300, 309: the loop goes round again while cmp >= 0
Rejected(v) == mpn_cmp(v, fr_modulus_limbs, Fr_N64) >= 0

\* how many limbs a call of the randomness source may deliver: all of them,
\* or fewer when it returns short (specification, section 7)
RngDelivers == 0 .. Fr_N64

\* randombytes_buf(&x, sizeof(x)) delivering k limbs: the contents x may hold
\* afterwards; the limbs not delivered keep what they held, anything when x
\* was never written
randombytes_buf(old, k) ==
    {v \in RawElements : \A i \in (k + 1) .. Fr_N64 : old = <<>> \/ v[i] = old[i]}

\* lines 300-307: one round of the loop sampling r
SampleR ==
    /\ pc = "sample_r"
    /\ \E k \in RngDelivers :
          \E v \in randombytes_buf(r, k) :
              /\ r' = MaskTop(v)
              /\ short' = [short EXCEPT !["r"] = (short["r"] \/ k < Fr_N64)]
              /\ pc' = IF Rejected(MaskTop(v)) THEN "sample_r" ELSE "sample_s"
    /\ UNCHANGED <<zkey, prover, wtns, heap, oob, err, proof, msm, pi, pih, a, b,
                   c, todo, wk, spinlocks, chain, shiftTodo, s,
                   guards, heapLog, visits, dangling>>

\* lines 309-316: one round of the loop sampling s
SampleS ==
    /\ pc = "sample_s"
    /\ \E k \in RngDelivers :
          \E v \in randombytes_buf(s, k) :
              /\ s' = MaskTop(v)
              /\ short' = [short EXCEPT !["s"] = (short["s"] \/ k < Fr_N64)]
              /\ pc' = IF Rejected(MaskTop(v)) THEN "sample_s" ELSE "get_pi_a"
    /\ UNCHANGED <<zkey, prover, wtns, heap, oob, err, proof, msm, pi, pih, a, b,
                   c, todo, wk, spinlocks, chain, shiftTodo, r,
                   guards, heapLog, visits, dangling>>

\* the randomness source refuses: its error leaves prove as an exception
RngRefuses ==
    /\ pc \in {"sample_r", "sample_s"}
    /\ err' = "RngFailure"
    /\ pc' = "unwind"
    /\ UNCHANGED <<zkey, prover, wtns, heap, oob, proof, msm, pi, pih, a, b, c,
                   todo, wk, spinlocks, chain, shiftTodo, r, s, short,
                   guards, heapLog, visits, dangling>>

\* a future whose destructor returns without waiting for its task
FutureDetached(status) == TRUE

\* ~future() of a future std::async returned: it blocks while the task runs
\* on its thread; a deferred task that was never got does not run at all
FutureDestroyed(status) == status \notin {"async", "shift"}

\* stack unwinding: the futures of the chains, declared last (lines 172-231),
\* are destroyed first, then the scope guards of lines 117-123 delete c, b, a
UnwindFree ==
    /\ pc = "unwind"
    /\ \A v \in Vectors : FutureDestroyed(chain[v])
    /\ ReleaseGuarded
    /\ pc' = "unwind_join"
    /\ UNCHANGED <<zkey, prover, wtns, heap, oob, err, proof, msm, pi, pih, todo,
                   wk, spinlocks, chain, shiftTodo, r, s, short, visits, dangling>>

\* stack unwinding, lines 88-106: the destructor of a future that std::async
\* returned blocks until its task has finished; a deferred task never runs
UnwindJoin ==
    /\ pc = "unwind_join"
    /\ \A t \in MsmTasks : FutureDestroyed(msm[t])
    /\ pc' = "failed"
    /\ UNCHANGED <<zkey, prover, wtns, heap, oob, err, proof, msm, pi, pih, a, b,
                   c, todo, wk, spinlocks, chain, shiftTodo, r, s, short,
                   guards, heapLog, visits, dangling>>

\* ------------------------------------------------------------------------
\* prove, phase 6: joining the MSMs and assembling the proof
\* ------------------------------------------------------------------------

\* lines 319-322: pA_future.get(), pB1_future.get(), pB2_future.get(),
\* pC_future.get()
GetMSM(t) ==
    /\ pc = "get_" \o t
    /\ FutureReady(msm[t])
    /\ pc' = CASE t = "pi_a" -> "get_pib1"
               [] t = "pib1" -> "get_pi_b"
               [] t = "pi_b" -> "get_pi_c"
               [] t = "pi_c" -> "assemble"
    /\ UNCHANGED <<zkey, prover, wtns, heap, oob, err, proof, msm, pi, pih, a, b,
                   c, todo, wk, spinlocks, chain, shiftTodo, r, s, short,
                   guards, heapLog, visits, dangling>>

\* an assembly whose s*A uses the MSM output pi_a where the blinded A belongs
ProofOfRawA(k, pi_a, pib1, pi_b, pi_c, ph, rv, sv) ==
    LET pi_a2 == GAdd(GAdd(pi_a, k.vk_alpha1), GMulByScalar(k.vk_delta1, rv))
        pi_b2 == GAdd(GAdd(pi_b, k.vk_beta2), GMulByScalar(k.vk_delta2, sv))
        pib12 == GAdd(GAdd(pib1, k.vk_beta1), GMulByScalar(k.vk_delta1, sv))
        pi_c2 == GAdd(GAdd(pi_c, ph), GMulByScalar(pi_a, sv))
        pi_c3 == GAdd(pi_c2, GMulByScalar(pib12, rv))
        rs    == toMontgomery(FrMul(rv, sv))
    IN [A |-> pi_a2, B |-> pi_b2,
        C |-> GSub(pi_c3, GMulByScalar(k.vk_delta1, rs))]

\* an assembly that passes the Montgomery product of r and s unconverted
ProofOfRawProduct(k, pi_a, pib1, pi_b, pi_c, ph, rv, sv) ==
    LET pi_a2 == GAdd(GAdd(pi_a, k.vk_alpha1), GMulByScalar(k.vk_delta1, rv))
        pi_b2 == GAdd(GAdd(pi_b, k.vk_beta2), GMulByScalar(k.vk_delta2, sv))
        pib12 == GAdd(GAdd(pib1, k.vk_beta1), GMulByScalar(k.vk_delta1, sv))
        pi_c2 == GAdd(GAdd(pi_c, ph), GMulByScalar(pi_a2, sv))
        pi_c3 == GAdd(pi_c2, GMulByScalar(pib12, rv))
    IN [A |-> pi_a2, B |-> pi_b2,
        C |-> GSub(pi_c3, GMulByScalar(k.vk_delta1, FrMul(rv, sv)))]

\* lines 325-357: the proof from the MSM outputs and the scalars' raw values
ProofOf(k, pi_a, pib1, pi_b, pi_c, ph, rv, sv) ==
    LET pi_a1 == GAdd(pi_a, k.vk_alpha1)
        pi_a2 == GAdd(pi_a1, GMulByScalar(k.vk_delta1, rv))
        pi_b1 == GAdd(pi_b, k.vk_beta2)
        pi_b2 == GAdd(pi_b1, GMulByScalar(k.vk_delta2, sv))
        pib11 == GAdd(pib1, k.vk_beta1)
        pib12 == GAdd(pib11, GMulByScalar(k.vk_delta1, sv))
        pi_c1 == GAdd(pi_c, ph)
        pi_c2 == GAdd(pi_c1, GMulByScalar(pi_a2, sv))
        pi_c3 == GAdd(pi_c2, GMulByScalar(pib12, rv))
        rs    == toMontgomery(FrMul(rv, sv))
        pi_c4 == GSub(pi_c3, GMulByScalar(k.vk_delta1, rs))
    IN [A |-> pi_a2, B |-> pi_b2, C |-> pi_c4]

\* lines 325-359: the assembly and the return; the scope guards delete c, b, a
Assemble ==
    /\ pc = "assemble"
    /\ proof' = <<ProofOf(P, pi["pi_a"], pi["pib1"], pi["pi_b"], pi["pi_c"], pih,
                          RawValue(r), RawValue(s))>>
    /\ ReleaseGuarded
    /\ pc' = "done"
    /\ UNCHANGED <<zkey, prover, wtns, heap, oob, err, msm, pi, pih, todo, wk,
                   spinlocks, chain, shiftTodo, r, s, short, visits, dangling>>

\* ------------------------------------------------------------------------
\* The specification
\* ------------------------------------------------------------------------

Next ==
    \/ makeProver
    \/ LaunchMSM
    \/ \E t \in MsmTasks : MsmRun(t)
    \/ Allocate
    \/ AllocFails
    \/ \E w \in Workers : TakeRange(w)
    \/ \E w \in Workers : ZeroBody(w)
    \/ StartScatter
    \/ \E w \in Workers : ScatterMul(w)
    \/ \E w \in Workers : ScatterLock(w)
    \/ \E w \in Workers : ScatterAdd(w)
    \/ StartCalcC
    \/ \E w \in Workers : CalcCBody(w)
    \/ LaunchFFT
    \/ AsyncFails
    \/ \E v \in Vectors : ChainIfft(v)
    \/ \E v \in Vectors : ChainShift(v)
    \/ \E v \in Vectors : ChainFft(v)
    \/ \E v \in Vectors : GetFFT(v)
    \/ \E w \in Workers : AbcBody(w)
    \/ MultiexpH
    \/ SampleR
    \/ SampleS
    \/ RngRefuses
    \/ UnwindFree
    \/ UnwindJoin
    \/ \E t \in MsmTasks : GetMSM(t)
    \/ Assemble

Spec == Init /\ [][Next]_vars

\* the scheduling the liveness of prove rests on: a thread that can take a
\* step is not held back for ever (the calling thread, the pool's workers
\* and the tasks' threads are operating-system threads), and the randomness
\* source does not deliver candidates at or above the modulus for ever
Fairness ==
    /\ WF_vars(Next)
    /\ WF_vars(SampleR /\ pc' = "sample_s")
    /\ WF_vars(SampleS /\ pc' = "get_pi_a")

FairSpec == Init /\ [][Next]_vars /\ Fairness

\* line 43: the caller calls prove again on the same Prover, with any of the
\* witnesses; the new activation has its own locals and nothing of the
\* previous one
NextCall ==
    /\ LocalsDead
    /\ prover # <<>>
    /\ \E j \in 0 .. (NumWitnesses - 1) : wtns' = WitnessOf(j, P.nVars)
    /\ pc' = "idle"
    /\ err' = "none"
    /\ proof' = <<>>
    /\ oob' = FALSE
    /\ msm' = [t \in MsmTasks |-> "none"]
    /\ pi' = [t \in MsmTasks |-> Uninit]
    /\ pih' = Uninit
    /\ todo' = {}
    /\ spinlocks' = [l \in 0 .. (NUM_LOCKS - 1) |-> 0]
    /\ chain' = [v \in Vectors |-> "none"]
    /\ shiftTodo' = [v \in Vectors |-> {}]
    /\ r' = <<>>
    /\ s' = <<>>
    /\ short' = [x \in {"r", "s"} |-> FALSE]
    /\ guards' = {}
    /\ heapLog' = NoHeapLog
    /\ visits' = NoVisits(0)
    /\ UNCHANGED <<zkey, prover, heap, a, b, c, wk, dangling>>

\* the specification of repeated calls: one prover of the sample circuit,
\* prove called on it again and again
InitCalls ==
    InitWith(SampleKey(IdentityPerm), WitnessOf(0, SampleKey(IdentityPerm).nVars), 0)

NextCalls == Next \/ NextCall

SpecCalls == InitCalls /\ [][NextCalls]_vars

\* the scatter specification starts where prove has launched its MSM tasks
\* and is about to allocate: the sample circuit with its stream in every
\* order, on several witnesses
InitScatter ==
    \E p \in Permutations1(NumCoefs) :
        \E j \in 0 .. (NumWitnesses - 1) :
            /\ zkey = SampleKey(p)
            /\ prover = <<ProverArgs(SampleKey(p))>>
            /\ wtns = WitnessOf(j, SampleKey(p).nVars)
            /\ heap = 0
            /\ oob = FALSE
            /\ pc = "alloc"
            /\ err = "none"
            /\ proof = <<>>
            /\ msm = [t \in MsmTasks |-> "async"]
            /\ pi = [t \in MsmTasks |-> Uninit]
            /\ pih = Uninit
            /\ a = <<>>
            /\ b = <<>>
            /\ c = <<>>
            /\ todo = {}
            /\ wk = [w2 \in Workers |-> IdleWorker]
            /\ spinlocks = [l \in 0 .. (NUM_LOCKS - 1) |-> 0]
            /\ chain = [v \in Vectors |-> "none"]
            /\ shiftTodo = [v \in Vectors |-> {}]
            /\ r = <<>>
            /\ s = <<>>
            /\ short = [x \in {"r", "s"} |-> FALSE]
            /\ guards = {}
            /\ heapLog = NoHeapLog
            /\ visits = NoVisits(0)
            /\ dangling = FALSE

\* phase 2 of prove and the pointwise c = a*b; the MSM tasks, which touch
\* neither a, b, c nor the locks, are not scheduled meanwhile
NextScatter ==
    \/ Allocate
    \/ \E w \in Workers : TakeRange(w)
    \/ \E w \in Workers : ZeroBody(w)
    \/ StartScatter
    \/ \E w \in Workers : ScatterMul(w)
    \/ \E w \in Workers : ScatterLock(w)
    \/ \E w \in Workers : ScatterAdd(w)
    \/ StartCalcC
    \/ \E w \in Workers : CalcCBody(w)

SpecScatter == InitScatter /\ [][NextScatter]_vars

\* the sample circuit with np of its signals public; pointsC covers the
\* non-public tail
MsmKey(np) ==
    [SampleKey(IdentityPerm) EXCEPT
        !.nPublic = np,
        !.pointsC = PointTable(SampleKey(IdentityPerm).nVars - np - 1, 9)]

\* the MSM specification: the sample circuit with every number of public
\* signals below nVars
InitMsm ==
    \E np \in 0 .. (SampleKey(IdentityPerm).nVars - 1) :
        InitWith(MsmKey(np), WitnessOf(0, MsmKey(np).nVars), 0)

SpecMsm == InitMsm /\ [][Next]_vars

\* a stream with one record more than an int can count
LongCount == 2 ^ (IntBits - 1) + 1

\* a circuit with LongCount records over a domain of twice NUM_LOCKS
\* elements, so that distinct buckets share a stripe
LongKey ==
    [SampleKey(IdentityPerm) EXCEPT
        !.domainSize = 2 * NUM_LOCKS,
        !.nCoeffs = LongCount,
        !.coefs = <<LongCount>> \o
                  [k \in 1 .. LongCount |-> CoefAt(k - 1, 3, 2 * NUM_LOCKS)],
        !.pointsH = PointTable(2 * NUM_LOCKS, 3)]

\* the long-stream specification: prove on the long circuit, from the
\* allocation to the pointwise c
InitLong ==
    /\ zkey = LongKey
    /\ prover = <<ProverArgs(LongKey)>>
    /\ wtns = WitnessOf(0, LongKey.nVars)
    /\ heap = 0
    /\ oob = FALSE
    /\ pc = "alloc"
    /\ err = "none"
    /\ proof = <<>>
    /\ msm = [t \in MsmTasks |-> "async"]
    /\ pi = [t \in MsmTasks |-> Uninit]
    /\ pih = Uninit
    /\ a = <<>>
    /\ b = <<>>
    /\ c = <<>>
    /\ todo = {}
    /\ wk = [w2 \in Workers |-> IdleWorker]
    /\ spinlocks = [l \in 0 .. (NUM_LOCKS - 1) |-> 0]
    /\ chain = [v \in Vectors |-> "none"]
    /\ shiftTodo = [v \in Vectors |-> {}]
    /\ r = <<>>
    /\ s = <<>>
    /\ short = [x \in {"r", "s"} |-> FALSE]
    /\ guards = {}
    /\ heapLog = NoHeapLog
    /\ visits = NoVisits(0)
    /\ dangling = FALSE

SpecLong == InitLong /\ [][NextScatter]_vars

\* what the element behind a witness buffer that is too short may hold
JunkValues == {0, fr_modulus - 1}

\* the witness specification: the sample circuit with a witness one signal
\* short, over each content of the memory behind it, and one signal long
InitWitness ==
    LET key == SampleKey(IdentityPerm)
    IN \/ \E h \in JunkValues :
             InitWith(key, WitnessOf(0, key.nVars - 1), h)
       \/ InitWith(key, WitnessOf(0, key.nVars + 1), 0)

SpecWitness == InitWitness /\ [][Next]_vars

\* ------------------------------------------------------------------------
\* Properties
\* ------------------------------------------------------------------------

\* the field sum of wtns[s_k]*coef_k over the first n records of a stream
\* that select polynomial m and bucket j
RECURSIVE BucketSum(_, _, _, _, _)
BucketSum(stream, w, m, j, n) ==
    IF n = 0 THEN FrZero
    ELSE IF stream[n].m = m /\ stream[n].c = j
         THEN FrAdd(BucketSum(stream, w, m, j, n - 1),
                    FrMul(w[stream[n].s + 1], stream[n].coef))
         ELSE BucketSum(stream, w, m, j, n - 1)

\* the scatter loop has returned and a, b hold its result
ScatterComplete == pc = "calc_c"

\* C1: when the scatter completes, a[j] is the field sum of wtns[s_k]*coef_k
\* over exactly the records with m_k = 0 and c_k = j and b[j] the same sum over
\* the records with m_k = 1 and c_k = j, for every assignment of records to
\* workers and every interleaving: no update is lost
ScatterLosesNoUpdate ==
    ScatterComplete =>
        \A j \in 0 .. (P.domainSize - 1) :
            /\ a[j] = BucketSum(P.coefs, wtns, 0, j, P.nCoefs)
            /\ b[j] = BucketSum(P.coefs, wtns, 1, j, P.nCoefs)

\* the scatter has completed on a stream with two records in the bucket a[0],
\* whose sum differs from each of the two addends
ScatterSharedBucketDone ==
    /\ ScatterComplete
    /\ Cardinality({k \in 1 .. P.nCoefs : P.coefs[k].m = 0 /\ P.coefs[k].c = 0}) >= 2
    /\ a[0] = BucketSum(P.coefs, wtns, 0, 0, P.nCoefs)
    /\ \A k \in 1 .. P.nCoefs : a[0] # FrMul(wtns[P.coefs[k].s + 1], P.coefs[k].coef)

\* a and b after the records of a stream were processed one after the other,
\* starting from all-zero vectors of d elements
RECURSIVE SerialScatter(_, _, _, _)
SerialScatter(stream, w, d, n) ==
    IF n = 0
    THEN [a |-> [i \in 0 .. (d - 1) |-> FrZero], b |-> [i \in 0 .. (d - 1) |-> FrZero]]
    ELSE LET prev == SerialScatter(stream, w, d, n - 1)
             rec  == stream[n]
             aux  == FrMul(w[rec.s + 1], rec.coef)
         IN IF rec.m = 0
            THEN [prev EXCEPT !.a[rec.c] = FrAdd(prev.a[rec.c], aux)]
            ELSE [prev EXCEPT !.b[rec.c] = FrAdd(prev.b[rec.c], aux)]

\* phase 2 and the pointwise c have completed
PointwiseCComplete == pc = "calc_c" /\ ParallelForDone

\* C2: for every permutation of the coefficient stream, a and b after phase 2
\* and c = a*b are those obtained from the unpermuted stream
ScatterOrderIndependent ==
    PointwiseCComplete =>
        LET ref == SerialScatter(BaseStream, wtns, P.domainSize, NumCoefs)
        IN /\ a = ref.a
           /\ b = ref.b
           /\ c = [i \in 0 .. (P.domainSize - 1) |-> FrMul(ref.a[i], ref.b[i])]

\* phase 2 has completed on a stream that is not in the unpermuted order and
\* c has a non-zero element
PermutedScatterDone ==
    /\ PointwiseCComplete
    /\ P.coefs # BaseStream
    /\ P.coefs[1] = BaseStream[NumCoefs]
    /\ \E i \in 0 .. (P.domainSize - 1) : c[i] # FrZero

\* the places of the calling thread from the start of the ABC loop on
AfterFFTJoin ==
    {"abc", "sample_r", "sample_s", "get_pi_a", "get_pib1", "get_pi_b",
     "get_pi_c", "assemble", "done"}

\* the places of the calling thread from the proof assembly on
AfterMSMJoin == {"assemble", "done"}

\* C3: the phase 4 reduction a[i] = a[i]*b[i] - c[i] does not start until the
\* three coset-FFT tasks have finished, and the proof assembly does not read
\* pi_a, pib1, pi_b, pi_c until the four MSM tasks have finished, in every
\* schedule of the tasks
JoinOrdering ==
    /\ (pc \in AfterFFTJoin \/ \E w \in Workers : wk[w].job = "abc")
          => \A v \in Vectors : chain[v] = "done"
    /\ (pc \in AfterMSMJoin \/ proof # <<>>)
          => \A t \in MsmTasks : msm[t] = "done"

\* the proof was assembled and returned after every task was joined
JoinedAndAssembled ==
    /\ pc = "done"
    /\ proof # <<>>
    /\ \A v \in Vectors : chain[v] = "done"
    /\ \A t \in MsmTasks : msm[t] = "done"

\* the elements of a, b, c a worker may access while it holds its sub-range:
\* [vec, idx, wr], wr telling a write from a read
WorkerAccess(w) ==
    LET rng == wk[w].lo .. (wk[w].hi - 1)
    IN CASE wk[w].job = "zero" ->
                {[vec |-> v, idx |-> i, wr |-> TRUE] : v \in {"a", "b"}, i \in rng}
         [] wk[w].job = "scatter" ->
                IF wk[w].st = "add"
                THEN {[vec |-> Target(CoefOf(wk[w])), idx |-> CoefOf(wk[w]).c,
                       wr |-> TRUE]}
                ELSE {}
         [] wk[w].job = "calc_c" ->
                {[vec |-> v, idx |-> i, wr |-> (v = "c")] : v \in Vectors, i \in rng}
         [] wk[w].job = "abc" ->
                {[vec |-> v, idx |-> i, wr |-> (v = "a")] : v \in Vectors, i \in rng}
         [] OTHER -> {}

\* the elements a launched chain may access until it has finished; a
\* deferred chain whose future is destroyed unawaited never runs
ChainAccess(v) ==
    IF \/ chain[v] \in {"none", "done"}
       \/ chain[v] = "deferred" /\ pc \in {"unwind_join", "failed"}
    THEN {}
    ELSE {[vec |-> v, idx |-> i, wr |-> TRUE] : i \in 0 .. (P.domainSize - 1)}

\* two accesses to one element, one of them a write
Conflict(x, y) == x.vec = y.vec /\ x.idx = y.idx /\ (x.wr \/ y.wr)

Conflicting(xs, ys) == \E x \in xs, y \in ys : Conflict(x, y)

\* C4: no element of a, b, c is written by one worker or task while another
\* reads or writes it, the scatter's read-modify-write happens under the
\* stripe's lock, and no phase starts while a worker of an earlier phase may
\* still write: zero-init, scatter, c = a*b, the chains, the final reduction
\* and the H MSM follow each other
NoRaceOnVectors ==
    /\ \A w1, w2 \in Workers :
          w1 # w2 => ~Conflicting(WorkerAccess(w1), WorkerAccess(w2))
    /\ \A w \in Workers, v \in Vectors :
          ~Conflicting(WorkerAccess(w), ChainAccess(v))
    /\ \A v1, v2 \in Vectors :
          v1 # v2 => ~Conflicting(ChainAccess(v1), ChainAccess(v2))
    /\ \A w \in Workers :
          wk[w].st = "add" => spinlocks[Stripe(CoefOf(wk[w]))] = w
    /\ \A w \in Workers : wk[w].st # "idle" => wk[w].job = pc
    /\ (\E v \in Vectors : ChainAccess(v) # {})
          => pc \in {"get_a", "get_b", "get_c", "unwind"}
    /\ pih # Uninit => \A w \in Workers : wk[w].st = "idle"

\* one worker is inside the read-modify-write of a bucket while another
\* waits for the lock of the same stripe
ScatterContention ==
    \E w1, w2 \in Workers :
        /\ w1 # w2
        /\ wk[w1].st = "add"
        /\ wk[w2].st = "lock"
        /\ Stripe(CoefOf(wk[w1])) = Stripe(CoefOf(wk[w2]))

\* C5: prove returns A = pi_a + vk_alpha1 + r*vk_delta1,
\* B = pi_b + vk_beta2 + s*vk_delta2 and
\* C = pi_c + pih + s*A + r*B1' - (r*s)*vk_delta1 with
\* B1' = pib1 + vk_beta1 + s*vk_delta1, the A inside C being the blinded A
AssemblyCorrect ==
    pc = "done" =>
        LET q  == fr_modulus
            rv == RawValue(r)
            sv == RawValue(s)
            A  == (pi["pi_a"] + P.vk_alpha1 + rv * P.vk_delta1) % q
            B  == (pi["pi_b"] + P.vk_beta2 + sv * P.vk_delta2) % q
            B1 == (pi["pib1"] + P.vk_beta1 + sv * P.vk_delta1) % q
            C  == (pi["pi_c"] + pih + sv * A + rv * B1
                     + q * q - ((rv * sv) % q) * P.vk_delta1) % q
        IN proof = <<[A |-> A, B |-> B, C |-> C]>>

\* a proof was returned whose blinding terms are not zero
BlindedProofReturned ==
    /\ pc = "done"
    /\ RawValue(r) # 0
    /\ RawValue(s) # 0
    /\ proof[1].A # pi["pi_a"]
    /\ GMulByScalar(proof[1].A, RawValue(s)) # GMulByScalar(pi["pi_a"], RawValue(s))

\* the places of the calling thread after both sampling loops
AfterSampling ==
    {"get_pi_a", "get_pib1", "get_pi_b", "get_pi_c", "assemble", "done"}

\* the two high bits of the top limb of a written scalar are clear
TopBitsClear(x) == x # <<>> => x[Fr_N64] < 2 ^ (LimbBits - 2)

\* C6: a candidate is accepted exactly when it is strictly below the modulus
\* and redrawn otherwise, after its two top bits were cleared, so the r and s
\* used in the proof assembly satisfy 0 <= r < q and 0 <= s < q for every
\* sequence of bytes the RNG returns
ScalarsBelowModulus ==
    /\ TopBitsClear(r)
    /\ TopBitsClear(s)
    /\ pc = "sample_r" => (r = <<>> \/ RawValue(r) >= fr_modulus)
    /\ pc = "sample_s" => (s = <<>> \/ RawValue(s) >= fr_modulus)
    /\ pc \in {"sample_s"} \cup AfterSampling =>
          (r # <<>> /\ RawValue(r) >= 0 /\ RawValue(r) < fr_modulus)
    /\ pc \in AfterSampling =>
          (s # <<>> /\ RawValue(s) >= 0 /\ RawValue(s) < fr_modulus)

\* the largest scalar was accepted for r after a candidate of s was rejected
LargestScalarAccepted ==
    /\ pc = "sample_s"
    /\ RawValue(r) = fr_modulus - 1
    /\ s # <<>>
    /\ RawValue(s) = fr_modulus

\* the coset-evaluation chain of one vector, step after step
CosetChain(v, d) ==
    fft([i \in 0 .. (d - 1) |-> FrMul(ifft(v, d)[i], root(log2(d) + 1, i))], d)

\* the proof a single thread computes from a key, a witness and the raw
\* values of r and s
SerialProof(k, w, rv, sv) ==
    LET d  == k.domainSize
        ab == SerialScatter(k.coefs, w, d, k.nCoefs)
        ea == CosetChain(ab.a, d)
        eb == CosetChain(ab.b, d)
        ec == CosetChain([i \in 0 .. (d - 1) |-> FrMul(ab.a[i], ab.b[i])], d)
        h  == [i \in 1 .. d |->
                  fromMontgomery(FrSub(FrMul(ea[i - 1], eb[i - 1]), ec[i - 1]))]
        n  == k.nVars - k.nPublic - 1
    IN ProofOf(k, multiMulByScalar(k.pointsA, w, k.nVars),
               multiMulByScalar(k.pointsB1, w, k.nVars),
               multiMulByScalar(k.pointsB2, w, k.nVars),
               multiMulByScalar(k.pointsC,
                                [j \in 1 .. n |-> w[k.nPublic + 1 + j]], n),
               multiMulByScalar(k.pointsH, h, d), rv, sv)

\* C7: for a fixed key and witness and fixed sampled r and s, prove returns
\* the same (A, B, C) however the MSM tasks, the scatter workers and the
\* coset-FFT tasks are scheduled: the proof is a function of key, witness, r, s
DeterministicModuloRS ==
    pc = "done" => proof = <<SerialProof(P, wtns, RawValue(r), RawValue(s))>>

\* a proof was returned whose H commitment is not the neutral element
ProofWithQuotient ==
    /\ pc = "done"
    /\ proof # <<>>
    /\ pih # 0
    /\ pih # Uninit

\* C8: whenever the witness does not have exactly nVars elements prove fails
\* with InvalidWitnessLength and returns no proof, and no MSM, scatter or FFT
\* step reads a witness index outside the supplied witness
WrongWitnessLengthRejected ==
    (prover # <<>> /\ Len(wtns) # P.nVars) =>
        /\ ~oob
        /\ proof = <<>>
        /\ pc = "done" => err = "InvalidWitnessLength"

\* the structural conditions of C9 on the key the caller supplies
SuppliedKeyMalformed ==
    \/ ~IsPowerOfTwo(zkey.domainSize)
    \/ \E i \in 1 .. zkey.nCoeffs :
          \/ zkey.coefs[i + 1].c >= zkey.domainSize
          \/ zkey.coefs[i + 1].s >= zkey.nVars
          \/ zkey.coefs[i + 1].m \notin {0, 1}

RngFailureSurfaced ==
    /\ proof # <<>> => (~short["r"] /\ ~short["s"])
    /\ (LocalsDead /\ (short["r"] \/ short["s"])) => err = "RngFailure"
    /\ err = "RngFailure" => proof = <<>>

\* C11: on every exit path of prove, the normal return and a failure raised
\* after an allocation (a later new[] that throws included), each of a, b, c
\* that new[] gave is released by delete[] exactly once before prove returns,
\* none is released twice or without having been allocated, and none is left
\* allocated
ScopedRelease ==
    /\ \A v \in Vectors :
          /\ heapLog[v].new <= 1
          /\ heapLog[v].del <= heapLog[v].new
          /\ (VectorOf(v) # <<>>) <=> (heapLog[v].new = 1 /\ heapLog[v].del = 0)
          /\ v \in guards => VectorOf(v) # <<>>
    /\ LocalsDead =>
          /\ guards = {}
          /\ \A v \in Vectors :
                /\ VectorOf(v) = <<>>
                /\ heapLog[v].del = heapLog[v].new

\* prove has failed on the allocation of c after a and b were allocated, and
\* both were released
LaterAllocationFailed ==
    /\ pc = "failed"
    /\ err = "BadAlloc"
    /\ heapLog["a"] = [new |-> 1, del |-> 1]
    /\ heapLog["b"] = [new |-> 1, del |-> 1]
    /\ heapLog["c"] = [new |-> 0, del |-> 0]

\* C12: a prove call modifies neither the proving key (the caller's arguments
\* and the fields of the Prover built from them) nor the caller's witness, and
\* keeps no state between calls: in any sequence of calls on one prover each
\* returned proof is the function of that call's witness and sampled r, s that
\* a single first call computes
ProveLeavesProverUnchanged ==
    /\ [][/\ zkey' = zkey
          /\ prover # <<>> => prover' = prover
          /\ ~LocalsDead => wtns' = wtns]_vars
    /\ [](prover # <<>> => prover = <<ProverArgs(zkey)>>)
    /\ [](pc = "done" =>
            proof = <<SerialProof(ProverArgs(zkey), wtns, RawValue(r), RawValue(s))>>)

\* a later call, on another witness than the first call's, has returned a
\* proof that differs from the proof the first witness gives for the same r, s
SecondCallReturned ==
    /\ pc = "done"
    /\ wtns # WitnessOf(0, P.nVars)
    /\ proof # <<SerialProof(P, WitnessOf(0, P.nVars), RawValue(r), RawValue(s))>>

\* C13: for every count of records and every partition into blocked
\* sub-ranges, the scatter loop runs its body on each record index in
\* [0, nCoeffs) exactly once and each loop over the domain on each index in
\* [0, domainSize) exactly once, and a worker's counter is the index it
\* stands at, within its sub-range
EveryIndexVisitedOnce ==
    /\ \A i \in DOMAIN visits : visits[i] <= 1
    /\ \A w \in Workers :
          wk[w].st # "idle" => (wk[w].lo >= 0 /\ wk[w].lo < wk[w].hi)
    /\ (pc \in LoopPhases /\ ParallelForDone) =>
          \A i \in DOMAIN visits : visits[i] = 1

\* C14: at every moment of the scatter at most one worker is inside the
\* read-modify-write target[c] += aux among all records whose c are congruent
\* modulo NUM_LOCKS, whether they update a or b, and a worker holds a lock,
\* and only the lock of its record's stripe, exactly while it is inside that
\* one addition
StripeMutualExclusion ==
    /\ \A w1, w2 \in Workers :
          (w1 # w2 /\ wk[w1].st = "add" /\ wk[w2].st = "add")
              => Stripe(CoefOf(wk[w1])) # Stripe(CoefOf(wk[w2]))
    /\ \A w \in Workers :
          {l \in DOMAIN spinlocks : spinlocks[l] = w} =
              (IF wk[w].st = "add" THEN {Stripe(CoefOf(wk[w]))} ELSE {})
    /\ \A l \in DOMAIN spinlocks : spinlocks[l] \in {0} \cup Workers

\* a worker is inside the addition on one bucket while another worker waits
\* for the same lock with a record of another bucket of the same stripe, and
\* that other record updates the other vector
DistinctBucketsShareStripe ==
    \E w1, w2 \in Workers :
        /\ wk[w1].st = "add"
        /\ wk[w2].st = "lock"
        /\ Stripe(CoefOf(wk[w1])) = Stripe(CoefOf(wk[w2]))
        /\ CoefOf(wk[w1]).c # CoefOf(wk[w2]).c
        /\ Target(CoefOf(wk[w1])) # Target(CoefOf(wk[w2]))

\* the sum of bases[j]*w[from + j] over j in [0, n), both arrays 0-based
RECURSIVE PairSum(_, _, _, _)
PairSum(bases, w, from, n) ==
    IF n = 0 THEN 0
    ELSE (PairSum(bases, w, from, n - 1) + bases[n] * w[from + n]) % fr_modulus

ChainInput(v) ==
    LET ab == SerialScatter(P.coefs, wtns, P.domainSize, P.nCoefs)
    IN CASE v = "a" -> ab.a
         [] v = "b" -> ab.b
         [] v = "c" -> [i \in 0 .. (P.domainSize - 1) |-> FrMul(ab.a[i], ab.b[i])]

\* the places of the calling thread while a chain may run
ChainsInFlight == {"get_a", "get_b", "get_c", "unwind"}

\* C16: each of a, b, c goes through the inverse FFT, then the multiplication
\* of element i by root(log2(domainSize)+1, i) for every i, then the forward
\* FFT, each step on the whole vector before the next starts, and each chain
\* changes its own vector only, so in every interleaving of the three chains
\* a vector holds its input until its chain starts, the inverse transform
\* with exactly the visited elements shifted during the shift, and the coset
\* evaluations of its input once its chain has finished (a until the
\* reduction of phase 4 overwrites it)
CosetChainOrder ==
    \A v \in Vectors :
        LET d   == P.domainSize
            inv == ifft(ChainInput(v), d)
        IN /\ (chain[v] \in {"async", "deferred"} /\ pc \in ChainsInFlight)
                 => VectorOf(v) = ChainInput(v)
           /\ (chain[v] = "shift" /\ ~Released(v))
                 => \A i \in 0 .. (d - 1) :
                       VectorOf(v)[i] =
                           IF i \in shiftTodo[v]
                           THEN inv[i]
                           ELSE FrMul(inv[i], root(log2(d) + 1, i))
           /\ (chain[v] = "done" /\ ~Released(v)
                 /\ (v = "a" => (pc \in ChainsInFlight /\ pih = Uninit)))
                 => VectorOf(v) = CosetChain(ChainInput(v), d)
           /\ chain[v] # "shift" => shiftTodo[v] = {}

\* the chains of a and b are both inside their shift loops; a's loop took its
\* last element first and changed it, and c's chain has not started
ChainsInterleaved ==
    /\ chain["a"] = "shift"
    /\ chain["b"] = "shift"
    /\ chain["c"] \in {"async", "deferred"}
    /\ shiftTodo["a"] = {0}
    /\ a # ifft(ChainInput("a"), P.domainSize)

\* the field element a Montgomery-form word stands for
Natural(x) == CHOOSE y \in Fr : (y * MontR) % fr_modulus = x

\* the natural-form value of a[i]*b[i] - c[i] over the coset evaluations the
\* three chains leave in a, b, c
QuotientEval(i) ==
    LET d  == P.domainSize
        ea == CosetChain(ChainInput("a"), d)
        eb == CosetChain(ChainInput("b"), d)
        ec == CosetChain(ChainInput("c"), d)
    IN (Natural(ea[i]) * Natural(eb[i]) + fr_modulus - Natural(ec[i])) % fr_modulus

\* C17: after the three chains, the scalar at position i of the H MSM is the
\* natural-form value of a[i]*b[i] - c[i] computed from the post-chain a, b, c
\* for every i in [0, domainSize): the reduction stores it in a[i] in place,
\* leaving b and c alone, and pih is the MSM of pointsH[0..domainSize) against
\* exactly these domainSize scalars
QuotientEvaluations ==
    LET d == P.domainSize
    IN /\ pc = "abc" =>
             \A i \in 0 .. (d - 1) :
                 a[i] = IF visits[i] = 1
                        THEN QuotientEval(i)
                        ELSE CosetChain(ChainInput("a"), d)[i]
       /\ (pih # Uninit /\ ~Released("a")) =>
             /\ \A i \in 0 .. (d - 1) : a[i] = QuotientEval(i)
             /\ b = CosetChain(ChainInput("b"), d)
             /\ c = CosetChain(ChainInput("c"), d)
       /\ pih # Uninit =>
             /\ Len(P.pointsH) = d
             /\ pih = PairSum(P.pointsH, [k \in 1 .. d |-> QuotientEval(k - 1)], 0, d)

\* the H MSM has run on scalars whose Montgomery form would have given
\* another commitment
NaturalFormCommitted ==
    /\ pih # Uninit
    /\ pih # 0
    /\ pih # PairSum(P.pointsH,
                     [k \in 1 .. P.domainSize |-> toMontgomery(QuotientEval(k - 1))],
                     0, P.domainSize)

\* C18: with r and s the raw integers that mulByScalar consumes in
\* r*vk_delta1, s*vk_delta2, s*vk_delta1, s*A and r*B1', the scalar of the
\* subtracted vk_delta1 term, toMontgomery of the Montgomery product of the
\* raw r and raw s, is the raw integer (r*s) mod q, for all r, s in [0, q)
ConsistentScalarEncoding ==
    pc \in AfterSampling =>
        LET rv == RawValue(r)
            sv == RawValue(s)
            rs == (rv * sv) % fr_modulus
        IN /\ rv \in Fr
           /\ sv \in Fr
           /\ toMontgomery(FrMul(rv, sv)) = rs
           /\ pc = "done" =>
                 LET A   == proof[1].A
                     B1  == GAdd(GAdd(pi["pib1"], P.vk_beta1),
                                 GMulByScalar(P.vk_delta1, sv))
                     sum == GAdd(GAdd(GAdd(pi["pi_c"], pih), GMulByScalar(A, sv)),
                                 GMulByScalar(B1, rv))
                 IN proof[1].C = GSub(sum, GMulByScalar(P.vk_delta1, rs))

\* a proof was returned for scalars whose Montgomery product, unconverted,
\* is not their product
ProductConverted ==
    /\ pc = "done"
    /\ RawValue(r) # RawValue(s)
    /\ (RawValue(r) * RawValue(s)) % fr_modulus # 0
    /\ FrMul(RawValue(r), RawValue(s)) # (RawValue(r) * RawValue(s)) % fr_modulus
    /\ GMulByScalar(P.vk_delta1, FrMul(RawValue(r), RawValue(s)))
          # GMulByScalar(P.vk_delta1, (RawValue(r) * RawValue(s)) % fr_modulus)

\* C19: under fair scheduling and a randomness source that eventually yields
\* a candidate below q, every prove call eventually returns, with a proof or
\* a failure, and by then every spinlock has been released and no launched
\* task or coset chain is still running on a thread
Quiescent ==
    /\ LocalsDead
    /\ \A l \in 0 .. (NUM_LOCKS - 1) : spinlocks[l] = 0
    /\ \A t \in MsmTasks : msm[t] # "async"
    /\ \A v \in Vectors : chain[v] \notin {"async", "shift"}

ProveTerminates == (pc = "idle") ~> Quiescent

\* the calling thread waits in pA_future.get() for a task that is still
\* running, with a deferred task behind it that only a later get() runs
CallerWaitsForTask ==
    /\ pc = "get_pi_a"
    /\ msm["pi_a"] = "async"
    /\ msm["pi_c"] = "deferred"

\* C20: no task outlives what it references: no task has accessed a released
\* vector or a dead local, a coset chain that is running on a thread has its
\* vector still allocated, and once prove has returned or thrown (the locals
\* pi_a, pib1, pi_b, pi_c are dead) no MSM task and no chain is still running
NoTaskOutlivesReferences ==
    /\ ~dangling
    /\ \A v \in Vectors :
          chain[v] \in {"async", "shift"} =>
              (~Released(v) /\ heapLog[v].del = 0 /\ ~LocalsDead)
    /\ \A t \in MsmTasks : msm[t] = "async" => ~LocalsDead

\* a failure is raised by a later std::async while the chain of a and an MSM
\* task are still running on their threads
FailureWhileTasksRun ==
    /\ pc = "unwind"
    /\ err = "BadAlloc"
    /\ chain["a"] \in {"async", "shift"}
    /\ \E t \in MsmTasks : msm[t] = "async"

====
